---- MODULE Spec2Model ----
(***************************************************************************)
(* Model of dex/base.py: BaseDEX.get_nonce, BaseDEX.approve_token,         *)
(* BaseDEX._wait_for_pending_txs, BaseDEX.get_token_balance and            *)
(* BaseDEX._handle_error, run by a bounded number of concurrent tasks      *)
(* against one chain node, and of the router's best-rate selection.        *)
(*                                                                         *)
(* Every await of the source is a step boundary; the statements inside     *)
(* "with self.nonce_lock" are separate steps as well, because nonce_lock   *)
(* is a threading.Lock and the object may be driven from several threads.  *)
(***************************************************************************)
EXTENDS Integers, Sequences, FiniteSets, TLC

\* ---- bounds of the model ------------------------------------------------
NumTasks == 2
MaxCalls == 2
MaxChain == 2
MaxNonce == 4
MaxAmount == 2
MaxBlocks == 3

Tasks == 1..NumTasks

VARIABLES
    chainPending,   \* eth.get_transaction_count(address, 'pending') of the node
    allowance,      \* token.allowance(self.address, spender) on the chain
    txs,            \* the transactions the node accepted, in broadcast order
    blocks,         \* the blocks of the chain: base fee and token balance at each
    _next_nonce,    \* BaseDEX._next_nonce
    nonce_lock,     \* BaseDEX.nonce_lock: Free, or the task holding it
    _pending_txs,   \* BaseDEX._pending_txs: the items <<token pair, transaction hash>>
    pc,             \* position of each task
    op,             \* the public method each task is running
    frame,          \* the arguments and locals of each task's call
    result,         \* what the call of each task returned or raised
    calls,          \* number of calls started so far
    returned,       \* history: the nonces get_nonce returned, in order
    batch,          \* history: the current batch of concurrent get_nonce calls
    burned,         \* history: nonces of approve_token calls that ended in failure
    prev,           \* history: each task's previous approve_token call
    clean           \* history: allowance untouched since the task's approval was mined

chainVars == <<chainPending, allowance, txs>>
objVars   == <<_next_nonce, nonce_lock, _pending_txs>>
taskVars  == <<pc, op, frame, result>>
histVars  == <<calls, returned, batch, burned, prev, clean>>
vars      == <<chainVars, objVars, taskVars, histVars, blocks>>

\* ---- values -------------------------------------------------------------
Free == 0

NoResult == [pending |-> TRUE]

NoReceipt == [status |-> 0 - 1, transactionHash |-> <<>>, gasUsed |-> 0, blockNumber |-> 0]

NoPair == <<>>

\* An amount of wei, kept as whole gwei and the wei below one gwei.
GweiInWei == 1000000000

NoFees == << >>

\* The locals of a call.  got, sent, step, exc and calm are history: the
\* nonces get_nonce returned to the call, the transactions it broadcast, the
\* step an exception came from and its class, and whether the allowance it
\* read was still the one its previous approval had set.  built is the
\* number of the latest block when the transaction was built.  tracked and tries
\* are history of the get_nonce call in progress: the value of _next_nonce
\* its current attempt read, and the number of its attempts.  lone is
\* history of a lookup that found entries of other pairs only.
EmptyFrame ==
    [current_nonce |-> 0, next_nonce |-> 0, amount |-> 0, allowance |-> 0,
     nonce |-> 0, tx |-> 0, fees |-> NoFees, tx_hash |-> <<>>, receipt |-> NoReceipt,
     token_in |-> <<>>, token_out |-> <<>>, token_pair |-> NoPair, seen |-> <<>>,
     got |-> 0, sent |-> 0, step |-> "none", exc |-> "none", calm |-> FALSE,
     quotes |-> <<>>, token |-> "none", block |-> 0, decimals |-> 0 - 1, raw_balance |-> 0 - 1,
     tracked |-> 0, tries |-> 0, lone |-> FALSE, built |-> 0]

NoPrev == [ok |-> FALSE, amount |-> 0, got |-> 0, sent |-> 0]

Max(a, b) == IF a >= b THEN a ELSE b

Ended(t) == pc[t] \in {"done", "raised"}

Quiescent == \A t \in Tasks : pc[t] = "idle" \/ Ended(t)

\* ---- bytes and their hexadecimal text (HexBytes.hex) ----------------------
HexDigits == <<"0", "1", "2", "3", "4", "5", "6", "7", "8", "9",
               "a", "b", "c", "d", "e", "f">>

RECURSIVE Hex(_)
Hex(bytes) ==
    IF bytes = <<>> THEN <<>>
    ELSE <<HexDigits[(Head(bytes) \div 16) + 1], HexDigits[(Head(bytes) % 16) + 1]>>
         \o Hex(Tail(bytes))

\* ---- token addresses and the key of a pair ---------------------------------
\* An address is its text, a sequence of character codes: "Ab", "aB", "Ba",
\* "bA" and "Bb" stand for three tokens, two of them written in two ways.
Addresses == {<<65, 98>>, <<97, 66>>, <<66, 97>>, <<98, 65>>, <<66, 98>>}

\* str.lower() of one character and of a text.
LowerChar(c) == IF c >= 65 /\ c <= 90 THEN c + 32 ELSE c

lower(text) == [i \in DOMAIN text |-> LowerChar(text[i])]

\* The order of Python strings: by the first character that differs, a
\* proper prefix first.
RECURSIVE StrLess(_, _)
StrLess(a, b) ==
    IF b = <<>> THEN FALSE
    ELSE IF a = <<>> THEN TRUE
    ELSE IF Head(a) # Head(b) THEN Head(a) < Head(b)
    ELSE StrLess(Tail(a), Tail(b))

\* Mutant: the list is left in the order of the arguments.
listed(a, b) == <<a, b>>

\* sorted() of a list of two texts.
sorted(a, b) == IF StrLess(b, a) THEN <<b, a>> ELSE <<a, b>>

\* Mutant: the key is built from the first argument alone.
FirstTwice(token_in, token_out) == <<lower(token_in), lower(token_in)>>

\* token_pair = tuple(sorted([token_in.lower(), token_out.lower()]))
TokenPair(token_in, token_out) == sorted(lower(token_in), lower(token_out))

\* The hash of a signed transaction: the account sends one transaction per
\* nonce, so the nonce identifies it.
TxHash(nonce) == <<171, 16 + nonce>>

\* ---- error descriptors ----------------------------------------------------
\* get_readable_error (dex/error_constants.py): the human-readable message
\* of an exception.
get_readable_error(error) ==
    CASE error = "ConnectionError"    -> "Could not reach the node"
      [] error = "ContractLogicError" -> "Execution reverted"
      [] error = "TypeError"          -> "Transaction could not be signed"
      [] error = "Web3RPCError"       -> "Transaction rejected by the node"
      [] error = "TimeExhausted"      -> "Transaction is not in the chain"
      [] OTHER                        -> "Unknown error"

\* BaseDEX._handle_error
_handle_error(error, context) ==
    [success |-> FALSE, error |-> get_readable_error(error)]

\* A batch is the set of get_nonce calls that run together: it starts with a
\* call made while no other call is in flight.  base is max(c, p) at its
\* start, from the number of nonces returned before it, calm whether every
\* read of the pending count has answered the same p since.
NewBatch == [base |-> Max(_next_nonce, chainPending),
             from |-> Len(returned),
             size |-> 1,
             calm |-> TRUE]

JoinBatch == IF Quiescent THEN NewBatch ELSE [batch EXCEPT !.size = @ + 1]

Disturbed == [batch EXCEPT !.calm = FALSE]

\* ---- the blocks of the chain ------------------------------------------------
\* A block as the engine reads it: its base fee and the balance of the
\* account in the token at that block.
Wei(gwei, wei) == [gwei |-> gwei, wei |-> wei]

\* The tokens whose balance is asked for, and decimals() of each.
Tokens == {"usdc", "cbbtc"}

TokenDecimals == [usdc |-> 6, cbbtc |-> 8]

\* The raw balances of the account a block can hold.
RawBalances == {[usdc |-> 2500000, cbbtc |-> 0], [usdc |-> 0, cbbtc |-> 120000000]}

FirstBlock == [baseFeePerGas |-> Wei(0, 1000), balance |-> [usdc |-> 0, cbbtc |-> 0]]

\* The chain grows by a block, with a base fee and balances of its own.
NewBlock(baseFee, balance) ==
    /\ Len(blocks) < MaxBlocks
    /\ blocks' = Append(blocks, [baseFeePerGas |-> baseFee, balance |-> balance])
    /\ UNCHANGED <<chainVars, objVars, taskVars, histVars>>

\* ---- construction (BaseDEX.__init__) --------------------------------------
\* _next_nonce is read with the 'latest' selector, which never exceeds the
\* 'pending' count of the same account.
InitObject(latest) ==
    /\ _next_nonce = latest
    /\ nonce_lock = Free
    /\ _pending_txs = {}

InitTasks ==
    /\ pc = [t \in Tasks |-> "idle"]
    /\ op = [t \in Tasks |-> "none"]
    /\ frame = [t \in Tasks |-> EmptyFrame]
    /\ result = [t \in Tasks |-> NoResult]
    /\ calls = 0
    /\ returned = <<>>
    /\ batch = [base |-> 0, from |-> 0, size |-> 0, calm |-> TRUE]
    /\ burned = {}
    /\ prev = [t \in Tasks |-> NoPrev]
    /\ clean = [t \in Tasks |-> FALSE]

Init ==
    /\ chainPending \in 0..1
    /\ allowance \in 0..1
    /\ txs = <<>>
    /\ blocks = <<FirstBlock>>
    /\ \E latest \in 0..chainPending : InitObject(latest)
    /\ InitTasks

\* ---- the chain ------------------------------------------------------------
\* Somebody else submits a transaction of the same account.
ChainAdvance ==
    /\ chainPending < MaxChain
    /\ chainPending' = chainPending + 1
    /\ batch' = Disturbed
    /\ UNCHANGED <<blocks, allowance, txs, objVars, taskVars, calls, returned, burned, prev, clean>>

\* The node mines a broadcast transaction: its receipt exists from now on.
\* A successful approve sets the allowance to the approved amount.
GasUsed(status) == IF status = 1 THEN 46000 ELSE 21000

Mine(i, status) ==
    /\ txs[i].receipt = NoReceipt
    /\ txs' = [txs EXCEPT ![i].receipt =
                  [status |-> status, transactionHash |-> txs[i].hash,
                   gasUsed |-> GasUsed(status), blockNumber |-> i]]
    /\ IF status = 1 /\ txs[i].kind = "approve"
       THEN /\ allowance' = txs[i].amount
            /\ clean' = [t \in Tasks |-> /\ t = txs[i].by
                                           /\ pc[t] = "ap_wait"
                                           /\ frame[t].tx_hash = txs[i].hash]
       ELSE UNCHANGED <<allowance, clean>>
    /\ UNCHANGED <<blocks, chainPending, objVars, taskVars, calls, returned, batch, burned, prev>>

\* The spender draws on the allowance (transferFrom).
Spend ==
    /\ allowance > 0
    /\ allowance' = allowance - 1
    /\ clean' = [t \in Tasks |-> FALSE]
    /\ UNCHANGED <<blocks, chainPending, txs, objVars, taskVars, calls, returned, batch, burned, prev>>

ReceiptOf(hash) ==
    IF \E i \in DOMAIN txs : txs[i].hash = hash
    THEN txs[CHOOSE i \in DOMAIN txs : txs[i].hash = hash].receipt
    ELSE NoReceipt

\* ---- how a call ends --------------------------------------------------------
\* The nonces a failed approve_token leaves behind: the one it was given.
Burn(t) == IF frame[t].got > 0 THEN burned \cup {frame[t].nonce} ELSE burned

\* Mutant: a failed call hands its nonce back.
CounterRolledBack(t) == IF frame[t].got > 0 THEN frame[t].nonce ELSE _next_nonce

\* The counter after a failure of approve_token: nothing assigns it.
CounterAfterFailure(t) == _next_nonce

\* An exception nothing catches: it reaches the caller of the method.
Escapes(t, step, e) ==
    /\ pc' = [pc EXCEPT ![t] = "raised"]
    /\ result' = [result EXCEPT ![t] = [raised |-> e]]
    /\ frame' = [frame EXCEPT ![t].step = step, ![t].exc = e]
    /\ UNCHANGED <<blocks, burned, _next_nonce>>

\* Mutant: the handler of approve_token is missing.
ApproveUnhandled(t, step, e) == Escapes(t, step, e)

\* "except Exception as e: return self._handle_error(e, 'approving token')"
ApproveFails(t, step, e) ==
    /\ pc' = [pc EXCEPT ![t] = "done"]
    /\ result' = [result EXCEPT ![t] = _handle_error(e, "approving token")]
    /\ frame' = [frame EXCEPT ![t].step = step, ![t].exc = e]
    /\ burned' = Burn(t)
    /\ _next_nonce' = CounterAfterFailure(t)

\* Mutant: a failed read is answered with a balance of zero.
BalanceZero(t, step, e) ==
    /\ pc' = [pc EXCEPT ![t] = "done"]
    /\ result' = [result EXCEPT ![t] = [value |-> [whole |-> 0, frac |-> 0, places |-> 0]]]
    /\ frame' = [frame EXCEPT ![t].step = step, ![t].exc = e]
    /\ UNCHANGED <<burned, _next_nonce>>

\* "except Exception as e: ... return self._handle_error(e, 'fetching token balance')"
BalanceFails(t, step, e) ==
    /\ pc' = [pc EXCEPT ![t] = "done"]
    /\ result' = [result EXCEPT ![t] = _handle_error(e, "fetching token balance")]
    /\ frame' = [frame EXCEPT ![t].step = step, ![t].exc = e]
    /\ UNCHANGED <<burned, _next_nonce>>

\* An exception raised at a step of a call: approve_token and
\* get_token_balance wrap their whole bodies in try/except, the other methods
\* have no handler.
Raise(t, step, e) ==
    CASE op[t] = "approve_token"     -> ApproveFails(t, step, e)
      [] op[t] = "get_token_balance" -> BalanceFails(t, step, e)
      [] OTHER                       -> Escapes(t, step, e)

\* ---- BaseDEX.get_nonce ----------------------------------------------------
\* Mutant: the with statement takes no lock.
LockIgnored(t) == TRUE

\* "with self.nonce_lock:" can be entered.
LockIsFree(t) == nonce_lock = Free

GnAcquire(t) ==
    /\ pc[t] = "gn_acquire"
    /\ _next_nonce < MaxNonce
    /\ LockIsFree(t)
    /\ nonce_lock' = t
    /\ pc' = [pc EXCEPT ![t] = "gn_read"]
    /\ UNCHANGED <<blocks, chainVars, _next_nonce, _pending_txs, op, frame, result, histVars>>

\* Mutant: the chain's count is ignored.
TrackedOnly(tracked, chain) == tracked

\* next_nonce = max(self._next_nonce, current_nonce)
HigherOf(tracked, chain) == Max(tracked, chain)

\* Mutant: the lock stays with the task that leaves the with statement.
LockKept(t) == t

\* The end of "with self.nonce_lock:", reached normally or by an exception.
LockReleased(t) == Free

\* current_nonce = get_transaction_count(address, 'pending') and the max;
\* an exception of the read leaves the with statement, which releases the
\* lock, and get_nonce.
GnRead(t) ==
    /\ pc[t] = "gn_read"
    /\ \/ /\ frame' = [frame EXCEPT ![t].current_nonce = chainPending,
                                    ![t].tracked = _next_nonce,
                                    ![t].tries = @ + 1,
                                    ![t].next_nonce = HigherOf(_next_nonce, chainPending)]
          /\ pc' = [pc EXCEPT ![t] = "gn_claim"]
          /\ UNCHANGED <<_next_nonce, nonce_lock, result, batch, burned>>
       \/ /\ nonce_lock' = LockReleased(t)
          /\ batch' = Disturbed
          /\ Raise(t, "nonce", "ConnectionError")
    /\ UNCHANGED <<blocks, chainVars, _pending_txs, op, calls, returned, prev, clean>>

\* Mutant: the counter skips a value.
ClaimedTwo(next_nonce) == next_nonce + 2

\* The value stored in self._next_nonce for a claimed nonce.
Claimed(next_nonce) == next_nonce + 1

\* self._next_nonce = next_nonce + 1, and the with statement ends.
GnClaim(t) ==
    /\ pc[t] = "gn_claim"
    /\ _next_nonce' = Claimed(frame[t].next_nonce)
    /\ nonce_lock' = LockReleased(t)
    /\ pc' = [pc EXCEPT ![t] = "gn_verify"]
    /\ UNCHANGED <<blocks, chainVars, _pending_txs, op, frame, result, histVars>>

\* Where the caller of get_nonce goes on.
AfterNonce(t) ==
    CASE op[t] = "approve_token" -> "ap_build"
      [] op[t] = "swap_tokens"   -> "sw_send"
      [] OTHER                   -> "done"

\* "return next_nonce": the caller has its nonce.
GnReturn(t) ==
    /\ returned' = Append(returned, frame[t].next_nonce)
    /\ pc' = [pc EXCEPT ![t] = AfterNonce(t)]
    /\ frame' = [frame EXCEPT ![t].nonce = frame[t].next_nonce, ![t].got = @ + 1,
                               ![t].tracked = 0, ![t].tries = 0]
    /\ result' = [result EXCEPT ![t] =
                     IF op[t] = "get_nonce" THEN [value |-> frame[t].next_nonce] ELSE @]

\* chain_nonce = get_transaction_count(address, 'pending'); the nonce is
\* returned when chain_nonce <= next_nonce; an exception of the read is
\* logged and the attempt is given up like a stale nonce.
GnVerify(t) ==
    /\ pc[t] = "gn_verify"
    /\ \/ /\ chainPending <= frame[t].next_nonce
          /\ GnReturn(t)
          /\ UNCHANGED batch
       \/ /\ chainPending > frame[t].next_nonce
          /\ pc' = [pc EXCEPT ![t] = "gn_sleep"]
          /\ frame' = [frame EXCEPT ![t].tracked = 0]
          /\ UNCHANGED <<result, returned, batch>>
       \/ /\ pc' = [pc EXCEPT ![t] = "gn_sleep"]
          /\ batch' = Disturbed
          /\ frame' = [frame EXCEPT ![t].tracked = 0]
          /\ UNCHANGED <<result, returned>>
    /\ UNCHANGED <<blocks, chainVars, objVars, op, calls, burned, prev, clean>>

\* await asyncio.sleep(0.1), then the loop starts over.
GnSleep(t) ==
    /\ pc[t] = "gn_sleep"
    /\ pc' = [pc EXCEPT ![t] = "gn_acquire"]
    /\ UNCHANGED <<blocks, chainVars, objVars, op, frame, result, histVars>>

\* ---- the callers ------------------------------------------------------------
\* A task calls get_nonce().
CallGetNonce(t) ==
    /\ pc[t] = "idle"
    /\ calls < MaxCalls
    /\ calls' = calls + 1
    /\ batch' = JoinBatch
    /\ pc' = [pc EXCEPT ![t] = "gn_acquire"]
    /\ op' = [op EXCEPT ![t] = "get_nonce"]
    /\ frame' = [frame EXCEPT ![t] = EmptyFrame]
    /\ UNCHANGED <<blocks, chainVars, objVars, result, returned, burned, prev, clean>>

\* What the task remembers of an approve_token call that has ended.
Remember(t) ==
    IF op[t] = "approve_token"
    THEN [ok     |-> result[t].success /\ frame[t].sent = 1,
          amount |-> frame[t].amount,
          got    |-> frame[t].got,
          sent   |-> frame[t].sent]
    ELSE NoPrev

\* The caller has taken the outcome; the task can make its next call.
Finish(t) ==
    /\ Ended(t)
    /\ pc' = [pc EXCEPT ![t] = "idle"]
    /\ op' = [op EXCEPT ![t] = "none"]
    /\ frame' = [frame EXCEPT ![t] = EmptyFrame]
    /\ result' = [result EXCEPT ![t] = NoResult]
    /\ prev' = [prev EXCEPT ![t] = Remember(t)]
    /\ UNCHANGED <<blocks, chainVars, objVars, calls, returned, batch, burned, clean>>

\* ---- BaseDEX.approve_token ---------------------------------------------------
\* A task calls approve_token(token_address, amount, spender).
CallApprove(t, amount) ==
    /\ pc[t] = "idle"
    /\ calls < MaxCalls
    /\ calls' = calls + 1
    /\ pc' = [pc EXCEPT ![t] = "ap_allowance"]
    /\ op' = [op EXCEPT ![t] = "approve_token"]
    /\ frame' = [frame EXCEPT ![t] = [EmptyFrame EXCEPT !.amount = amount]]
    /\ UNCHANGED <<blocks, chainVars, objVars, result, returned, batch, burned, prev, clean>>

\* Mutant: strict comparison.
StrictlyMore(current, amount) == current > amount

\* "if allowance >= amount:"
Sufficient(current, amount) == current >= amount

\* The contract object, the allowance read and the fast path.
ApAllowance(t) ==
    /\ pc[t] = "ap_allowance"
    /\ \/ /\ frame' = [frame EXCEPT ![t].allowance = allowance,
                                    ![t].calm = clean[t] /\ prev[t].ok]
          /\ IF Sufficient(allowance, frame[t].amount)
             THEN /\ pc' = [pc EXCEPT ![t] = "done"]
                  /\ result' = [result EXCEPT ![t] = [success |-> TRUE]]
             ELSE /\ pc' = [pc EXCEPT ![t] = "gn_acquire"]
                  /\ UNCHANGED result
          /\ UNCHANGED <<burned, _next_nonce>>
       \/ Raise(t, "allowance", "ContractLogicError")
    /\ UNCHANGED <<blocks, chainVars, nonce_lock, _pending_txs, op, calls, returned, batch, prev, clean>>

\* Mutant: the call approves less than it was asked for.
ApprovedLess(amount) == amount - 1

\* token.functions.approve(spender, amount): the amount the call approves.
ApprovedAmount(amount) == amount

\* Web3.to_wei(number, unit)
to_wei(number, unit) ==
    IF unit = "gwei" THEN Wei(number, 0)
    ELSE Wei(number \div GweiInWei, number % GweiInWei)

\* 'maxFeePerGas' and 'maxPriorityFeePerGas' of the transaction dictionary.
ApproveFees(latest) ==
    [maxFeePerGas |-> to_wei(4, "gwei"), maxPriorityFeePerGas |-> to_wei(2, "gwei")]

\* approve_function.build_transaction({...}), which asks the node for the gas.
ApBuild(t) ==
    /\ pc[t] = "ap_build"
    /\ \/ /\ frame' = [frame EXCEPT ![t].tx = ApprovedAmount(frame[t].amount),
                                    ![t].fees = ApproveFees(blocks[Len(blocks)]),
                                    ![t].built = Len(blocks)]
          /\ pc' = [pc EXCEPT ![t] = "ap_sign"]
          /\ UNCHANGED <<result, burned, _next_nonce>>
       \/ Raise(t, "build", "ContractLogicError")
    /\ UNCHANGED <<blocks, chainVars, nonce_lock, _pending_txs, op, calls, returned, batch, prev, clean>>

\* self.w3.eth.account.sign_transaction(tx, private_key=...)
ApSign(t) ==
    /\ pc[t] = "ap_sign"
    /\ \/ /\ pc' = [pc EXCEPT ![t] = "ap_send"]
          /\ UNCHANGED <<frame, result, burned, _next_nonce>>
       \/ Raise(t, "sign", "TypeError")
    /\ UNCHANGED <<blocks, chainVars, nonce_lock, _pending_txs, op, calls, returned, batch, prev, clean>>

\* The node takes a transaction whose nonce is not used up and not already
\* taken by a transaction it holds; the pending count moves past a nonce
\* that continues it.
Accepts(nonce) ==
    /\ nonce >= chainPending
    /\ \A i \in DOMAIN txs : txs[i].nonce # nonce

Broadcast(t, kind) ==
    /\ Accepts(frame[t].nonce)
    /\ txs' = Append(txs, [hash |-> TxHash(frame[t].nonce), nonce |-> frame[t].nonce,
                           kind |-> kind, amount |-> frame[t].tx, by |-> t,
                           fees |-> frame[t].fees, built |-> frame[t].built,
                           pair |-> frame[t].token_pair,
                           receipt |-> NoReceipt])
    /\ chainPending' = IF frame[t].nonce = chainPending THEN chainPending + 1
                       ELSE chainPending
    /\ frame' = [frame EXCEPT ![t].tx_hash = TxHash(frame[t].nonce), ![t].sent = @ + 1]

\* self.w3.eth.send_raw_transaction(signed_tx.raw_transaction)
ApSend(t) ==
    /\ pc[t] = "ap_send"
    /\ \/ /\ Broadcast(t, "approve")
          /\ pc' = [pc EXCEPT ![t] = "ap_wait"]
          /\ UNCHANGED <<result, burned, _next_nonce>>
       \/ /\ Raise(t, "send", "Web3RPCError")
          /\ UNCHANGED <<chainPending, txs>>
    /\ UNCHANGED <<blocks, allowance, nonce_lock, _pending_txs, op, calls, returned, batch, prev, clean>>

\* Mutant: any receipt counts as success.
AnyReceipt(receipt) == receipt.status >= 0

\* "if receipt['status'] == 1:"
Succeeded(receipt) == receipt.status = 1

\* The two dictionaries approve_token builds from a receipt.
Classify(receipt) ==
    IF Succeeded(receipt)
    THEN [success         |-> TRUE,
          transactionHash |-> Hex(receipt.transactionHash),
          gas_used        |-> receipt.gasUsed,
          blockNumber     |-> receipt.blockNumber]
    ELSE [success |-> FALSE,
          error   |-> "Transaction failed",
          receipt |-> receipt]

\* wait_for_transaction_receipt(tx_hash, timeout=30): the receipt, or
\* TimeExhausted when there is none in time, or an error of the node.
ApWait(t) ==
    /\ pc[t] = "ap_wait"
    /\ \/ /\ ReceiptOf(frame[t].tx_hash) # NoReceipt
          /\ frame' = [frame EXCEPT ![t].receipt = ReceiptOf(frame[t].tx_hash)]
          /\ result' = [result EXCEPT ![t] = Classify(ReceiptOf(frame[t].tx_hash))]
          /\ pc' = [pc EXCEPT ![t] = "done"]
          /\ burned' = IF Succeeded(ReceiptOf(frame[t].tx_hash)) THEN burned ELSE Burn(t)
          /\ UNCHANGED _next_nonce
       \/ /\ ReceiptOf(frame[t].tx_hash) = NoReceipt
          /\ Raise(t, "wait", "TimeExhausted")
       \/ Raise(t, "wait", "ConnectionError")
    /\ UNCHANGED <<blocks, chainVars, nonce_lock, _pending_txs, op, calls, returned, batch, prev, clean>>

NextApprove ==
    \/ ChainAdvance
    \/ \E i \in DOMAIN txs, status \in {0, 1} : Mine(i, status)
    \/ Spend
    \/ \E t \in Tasks, amount \in 1..MaxAmount : CallApprove(t, amount)
    \/ \E t \in Tasks : ApAllowance(t)
    \/ \E t \in Tasks : GnAcquire(t)
    \/ \E t \in Tasks : GnRead(t)
    \/ \E t \in Tasks : GnClaim(t)
    \/ \E t \in Tasks : GnVerify(t)
    \/ \E t \in Tasks : GnSleep(t)
    \/ \E t \in Tasks : ApBuild(t)
    \/ \E t \in Tasks : ApSign(t)
    \/ \E t \in Tasks : ApSend(t)
    \/ \E t \in Tasks : ApWait(t)
    \/ \E t \in Tasks : Finish(t)

SpecApprove == Init /\ [][NextApprove]_vars

\* ---- BaseDEX.get_token_balance --------------------------------------------------
\* A task calls get_token_balance(token_address).
CallBalance(t, token) ==
    /\ pc[t] = "idle"
    /\ calls < MaxCalls
    /\ calls' = calls + 1
    /\ pc' = [pc EXCEPT ![t] = "b_block"]
    /\ op' = [op EXCEPT ![t] = "get_token_balance"]
    /\ frame' = [frame EXCEPT ![t] = [EmptyFrame EXCEPT !.token = token]]
    /\ UNCHANGED <<blocks, chainVars, objVars, result, returned, batch, burned, prev, clean>>

\* block = await to_thread(w3.eth.block_number)
BBlock(t) ==
    /\ pc[t] = "b_block"
    /\ \/ /\ frame' = [frame EXCEPT ![t].block = Len(blocks)]
          /\ pc' = [pc EXCEPT ![t] = "b_decimals"]
          /\ UNCHANGED <<result, burned, _next_nonce>>
       \/ Raise(t, "block", "ConnectionError")
    /\ UNCHANGED <<blocks, chainVars, nonce_lock, _pending_txs, op, calls, returned, batch, prev, clean>>

\* decimals = await to_thread(token.functions.decimals().call())
BDecimals(t) ==
    /\ pc[t] = "b_decimals"
    /\ \/ /\ frame' = [frame EXCEPT ![t].decimals = TokenDecimals[frame[t].token]]
          /\ pc' = [pc EXCEPT ![t] = "b_balance"]
          /\ UNCHANGED <<result, burned, _next_nonce>>
       \/ Raise(t, "decimals", "ContractLogicError")
    /\ UNCHANGED <<blocks, chainVars, nonce_lock, _pending_txs, op, calls, returned, batch, prev, clean>>

RECURSIVE Pow10(_)
Pow10(n) == IF n = 0 THEN 1 ELSE 10 * Pow10(n - 1)

\* Mutant: the balance is read at the latest block.
BalanceLatest(token, block) == blocks[Len(blocks)].balance[token]

\* token.functions.balanceOf(self.address).call(block_identifier=block)
BalanceAt(token, block) == blocks[block].balance[token]

\* balance = raw_balance / (10 ** decimals): the quotient, as its whole part
\* and the digits after the point.
Scaled(raw_balance, decimals) ==
    [whole  |-> raw_balance \div Pow10(decimals),
     frac   |-> raw_balance % Pow10(decimals),
     places |-> decimals]

\* raw_balance = await to_thread(balanceOf(...)), the division and the return.
BBalance(t) ==
    /\ pc[t] = "b_balance"
    /\ \/ LET raw_balance == BalanceAt(frame[t].token, frame[t].block) IN
          /\ frame' = [frame EXCEPT ![t].raw_balance = raw_balance]
          /\ result' = [result EXCEPT ![t] =
                            [value |-> Scaled(raw_balance, frame[t].decimals)]]
          /\ pc' = [pc EXCEPT ![t] = "done"]
          /\ UNCHANGED <<burned, _next_nonce>>
       \/ Raise(t, "balance", "ContractLogicError")
    /\ UNCHANGED <<blocks, chainVars, nonce_lock, _pending_txs, op, calls, returned, batch, prev, clean>>

NextBalance ==
    \/ \E balance \in RawBalances :
           NewBlock(blocks[Len(blocks)].baseFeePerGas, balance)
    \/ \E t \in Tasks, token \in Tokens : CallBalance(t, token)
    \/ \E t \in Tasks : BBlock(t)
    \/ \E t \in Tasks : BDecimals(t)
    \/ \E t \in Tasks : BBalance(t)
    \/ \E t \in Tasks : Finish(t)

\* ---- the router: bestRate ----------------------------------------------------------
\* The registered venue adapters, in the order of registration.
Adapters == <<"A", "B", "C">>

\* What an adapter answers to quote(tokenIn, tokenOut, amountIn): an
\* amountOut, or an error.
QuoteError == [ok |-> FALSE, amountOut |-> 0]

Answers == {QuoteError} \cup {[ok |-> TRUE, amountOut |-> n] : n \in {100, 150}}

NoQuote == [venue |-> "none", amountOut |-> 0]

\* Mutant: a later adapter replaces the best so far when it answered less.
Worse(answer, best) ==
    answer.ok /\ (best = NoQuote \/ answer.amountOut < best.amountOut)

\* An adapter that erred is discarded; one that answered replaces the best
\* so far when its amountOut is greater.
Better(answer, best) ==
    answer.ok /\ (best = NoQuote \/ answer.amountOut > best.amountOut)

\* The selection over the adapters from the i-th on.
RECURSIVE Select(_, _, _)
Select(quotes, i, best) ==
    IF i > Len(Adapters) THEN best
    ELSE Select(quotes, i + 1,
                IF Better(quotes[i], best)
                THEN [venue |-> Adapters[i], amountOut |-> quotes[i].amountOut]
                ELSE best)

\* bestRate: the selected quote, or the failure NoLiquidity when no adapter
\* answered.
bestRate(quotes) ==
    LET best == Select(quotes, 1, NoQuote) IN
    IF best = NoQuote THEN [raised |-> "NoLiquidity"] ELSE [quote |-> best]

\* A task asks the router for the best rate with no venue named.
CallBestRate(t) ==
    /\ pc[t] = "idle"
    /\ calls < MaxCalls
    /\ calls' = calls + 1
    /\ pc' = [pc EXCEPT ![t] = "r_quotes"]
    /\ op' = [op EXCEPT ![t] = "bestRate"]
    /\ frame' = [frame EXCEPT ![t] = EmptyFrame]
    /\ UNCHANGED <<blocks, chainVars, objVars, result, returned, batch, burned, prev, clean>>

\* Every adapter has answered its quote request.
RQuotes(t, quotes) ==
    /\ pc[t] = "r_quotes"
    /\ frame' = [frame EXCEPT ![t].quotes = quotes]
    /\ pc' = [pc EXCEPT ![t] = "r_select"]
    /\ UNCHANGED <<blocks, chainVars, objVars, op, result, histVars>>

\* The router selects and answers.
RSelect(t) ==
    /\ pc[t] = "r_select"
    /\ result' = [result EXCEPT ![t] = bestRate(frame[t].quotes)]
    /\ pc' = [pc EXCEPT ![t] = IF "raised" \in DOMAIN bestRate(frame[t].quotes)
                                THEN "raised" ELSE "done"]
    /\ UNCHANGED <<blocks, chainVars, objVars, op, frame, histVars>>

NextRouter ==
    \/ \E t \in Tasks : CallBestRate(t)
    \/ \E t \in Tasks, quotes \in [1..Len(Adapters) -> Answers] : RQuotes(t, quotes)
    \/ \E t \in Tasks : RSelect(t)
    \/ \E t \in Tasks : Finish(t)

\* ---- BaseDEX._pending_txs as a dictionary -----------------------------------
HasEntry(key) == \E e \in _pending_txs : e[1] = key

EntryOf(key) == (CHOOSE e \in _pending_txs : e[1] = key)[2]

WithEntry(key, hash) == {e \in _pending_txs : e[1] # key} \cup {<<key, hash>>}

\* "del self._pending_txs[token_pair]"
WithoutEntry(key) == {e \in _pending_txs : e[1] # key}

\* ---- BaseDEX._wait_for_pending_txs, called by a swap --------------------------
\* A task starts an operation on a pair: it awaits
\* self._wait_for_pending_txs(token_in, token_out) first.  The key of the
\* pair depends on the two arguments alone, so the frame holds the key.
CallSwap(t, token_in, token_out) ==
    /\ pc[t] = "idle"
    /\ calls < MaxCalls
    /\ lower(token_in) # lower(token_out)
    /\ calls' = calls + 1
    /\ pc' = [pc EXCEPT ![t] = "w_latest"]
    /\ op' = [op EXCEPT ![t] = "swap_tokens"]
    /\ frame' = [frame EXCEPT ![t] =
                    [EmptyFrame EXCEPT !.token_pair = TokenPair(token_in, token_out)]]
    /\ UNCHANGED <<blocks, chainVars, objVars, result, returned, batch, burned, prev, clean>>

\* A task calls _wait_for_pending_txs(token_in, token_out) itself.
CallWait(t, token_in, token_out) ==
    /\ pc[t] = "idle"
    /\ calls < MaxCalls
    /\ lower(token_in) # lower(token_out)
    /\ calls' = calls + 1
    /\ pc' = [pc EXCEPT ![t] = "w_latest"]
    /\ op' = [op EXCEPT ![t] = "_wait_for_pending_txs"]
    /\ frame' = [frame EXCEPT ![t] =
                    [EmptyFrame EXCEPT !.token_in = token_in, !.token_out = token_out,
                                       !.token_pair = TokenPair(token_in, token_out)]]
    /\ UNCHANGED <<blocks, chainVars, objVars, result, returned, batch, burned, prev, clean>>

\* Where the method ends: its caller goes on to the nonce, a direct call is over.
AfterWait(t) == IF op[t] = "swap_tokens" THEN "gn_acquire" ELSE "done"

\* The method has no return statement: a direct call gets None.
WaitReturns(t) ==
    IF op[t] = "swap_tokens" THEN result ELSE [result EXCEPT ![t] = [value |-> "None"]]

\* latest_nonce = await to_thread(get_transaction_count(address, 'latest'))
WLatest(t) ==
    /\ pc[t] = "w_latest"
    /\ \/ /\ pc' = [pc EXCEPT ![t] = "w_pending"]
          /\ UNCHANGED <<frame, result, burned, _next_nonce>>
       \/ Raise(t, "latest", "ConnectionError")
    /\ UNCHANGED <<blocks, chainVars, nonce_lock, _pending_txs, op, calls, returned, batch, prev, clean>>

\* "if token_pair in self._pending_txs:"
Awaited(key) == HasEntry(key)

\* pending_nonce = await to_thread(get_transaction_count(address, 'pending')),
\* then the key of the pair and the lookup: with an entry the task waits for
\* the receipt of its transaction, without one the method returns and the
\* caller goes on to its nonce.
WPending(t) ==
    /\ pc[t] = "w_pending"
    /\ \/ LET key == frame[t].token_pair IN
          /\ IF Awaited(key)
             THEN /\ frame' = [frame EXCEPT ![t].seen = EntryOf(key)]
                  /\ pc' = [pc EXCEPT ![t] = "w_receipt"]
                  /\ UNCHANGED result
             ELSE /\ pc' = [pc EXCEPT ![t] = AfterWait(t)]
                  /\ frame' = [frame EXCEPT ![t].lone = _pending_txs # {}]
                  /\ result' = WaitReturns(t)
          /\ UNCHANGED <<burned, _next_nonce>>
       \/ Raise(t, "pending", "ConnectionError")
    /\ UNCHANGED <<blocks, chainVars, nonce_lock, _pending_txs, op, calls, returned, batch, prev, clean>>

\* receipt = await to_thread(wait_for_transaction_receipt(tx_hash, timeout=60)),
\* then "del self._pending_txs[token_pair]", which raises KeyError when the
\* key is gone, and the return to the caller.
WReceipt(t) ==
    /\ pc[t] = "w_receipt"
    /\ \/ /\ ReceiptOf(frame[t].seen) # NoReceipt
          /\ IF HasEntry(frame[t].token_pair)
             THEN /\ _pending_txs' = WithoutEntry(frame[t].token_pair)
                  /\ pc' = [pc EXCEPT ![t] = AfterWait(t)]
                  /\ result' = WaitReturns(t)
                  /\ UNCHANGED <<frame, burned, _next_nonce>>
             ELSE /\ Raise(t, "del", "KeyError")
                  /\ UNCHANGED _pending_txs
       \/ /\ ReceiptOf(frame[t].seen) = NoReceipt
          /\ Raise(t, "receipt", "TimeExhausted")
          /\ UNCHANGED _pending_txs
       \/ /\ Raise(t, "receipt", "ConnectionError")
          /\ UNCHANGED _pending_txs
    /\ UNCHANGED <<blocks, chainVars, nonce_lock, op, calls, returned, batch, prev, clean>>

\* The caller broadcasts its transaction and records the hash under the key
\* of the pair.
SwSend(t) ==
    /\ pc[t] = "sw_send"
    /\ \/ /\ Broadcast(t, "swap")
          /\ _pending_txs' = WithEntry(frame[t].token_pair, TxHash(frame[t].nonce))
          /\ pc' = [pc EXCEPT ![t] = "sw_wait"]
          /\ UNCHANGED <<result, burned, _next_nonce>>
       \/ /\ Raise(t, "send", "Web3RPCError")
          /\ UNCHANGED <<chainPending, txs, _pending_txs>>
    /\ UNCHANGED <<blocks, allowance, nonce_lock, op, calls, returned, batch, prev, clean>>

\* The caller waits for the receipt of its transaction and removes the entry
\* of the pair however the wait ends.
SwWait(t) ==
    /\ pc[t] = "sw_wait"
    /\ \/ /\ ReceiptOf(frame[t].tx_hash) # NoReceipt
          /\ frame' = [frame EXCEPT ![t].receipt = ReceiptOf(frame[t].tx_hash)]
          /\ result' = [result EXCEPT ![t] = Classify(ReceiptOf(frame[t].tx_hash))]
          /\ pc' = [pc EXCEPT ![t] = "done"]
          /\ UNCHANGED <<burned, _next_nonce>>
       \/ /\ ReceiptOf(frame[t].tx_hash) = NoReceipt
          /\ Raise(t, "wait", "TimeExhausted")
       \/ Raise(t, "wait", "ConnectionError")
    /\ _pending_txs' = WithoutEntry(frame[t].token_pair)
    /\ UNCHANGED <<blocks, chainVars, nonce_lock, op, calls, returned, batch, prev, clean>>

\* ---- the owner of a pending entry, seen from the waiters ------------------------
\* Another operation of the engine broadcasts its transaction and records
\* the hash under the key of its pair.
Submit(token_in, token_out) ==
    /\ lower(token_in) # lower(token_out)
    /\ chainPending < MaxChain
    /\ nonce_lock = Free
    /\ LET nonce == Max(_next_nonce, chainPending) IN
       /\ Accepts(nonce)
       /\ txs' = Append(txs, [hash |-> TxHash(nonce), nonce |-> nonce,
                              kind |-> "swap", amount |-> 0, by |-> 0,
                              fees |-> NoFees, built |-> Len(blocks),
                              pair |-> TokenPair(token_in, token_out),
                              receipt |-> NoReceipt])
       /\ chainPending' = nonce + 1
       /\ _next_nonce' = nonce + 1
       /\ _pending_txs' = WithEntry(TokenPair(token_in, token_out), TxHash(nonce))
    /\ UNCHANGED <<blocks, allowance, nonce_lock, taskVars, histVars>>

\* The owner's wait for its receipt has ended: it removes the entry of its pair.
Settle(key) ==
    /\ HasEntry(key)
    /\ _pending_txs' = WithoutEntry(key)
    /\ UNCHANGED <<blocks, chainVars, _next_nonce, nonce_lock, taskVars, histVars>>

NextWait ==
    \/ \E i \in DOMAIN txs, status \in {0, 1} : Mine(i, status)
    \/ \E token_in \in Addresses, token_out \in Addresses : Submit(token_in, token_out)
    \/ \E e \in _pending_txs : Settle(e[1])
    \/ \E t \in Tasks, token_in \in Addresses, token_out \in Addresses :
           CallWait(t, token_in, token_out)
    \/ \E t \in Tasks : WLatest(t)
    \/ \E t \in Tasks : WPending(t)
    \/ \E t \in Tasks : WReceipt(t)
    \/ \E t \in Tasks : Finish(t)

\* The account has transactions of its own on the chain and the token is
\* not approved.
InitWait ==
    /\ Init
    /\ chainPending = 1
    /\ allowance = 0

SpecWait == InitWait /\ [][NextWait]_vars

SpecBalance == InitWait /\ [][NextBalance]_vars

SpecRouter == InitWait /\ [][NextRouter]_vars

\* Approvals and operations on pairs side by side: every place where a task
\* is suspended or waits.
NextEngine ==
    \/ \E i \in DOMAIN txs, status \in {0, 1} : Mine(i, status)
    \/ \E t \in Tasks, amount \in 1..MaxAmount : CallApprove(t, amount)
    \/ \E t \in Tasks, token_in \in Addresses, token_out \in Addresses :
           CallSwap(t, token_in, token_out)
    \/ \E t \in Tasks : ApAllowance(t)
    \/ \E t \in Tasks : WLatest(t)
    \/ \E t \in Tasks : WPending(t)
    \/ \E t \in Tasks : WReceipt(t)
    \/ \E t \in Tasks : GnAcquire(t)
    \/ \E t \in Tasks : GnRead(t)
    \/ \E t \in Tasks : GnClaim(t)
    \/ \E t \in Tasks : GnVerify(t)
    \/ \E t \in Tasks : GnSleep(t)
    \/ \E t \in Tasks : ApBuild(t)
    \/ \E t \in Tasks : ApSign(t)
    \/ \E t \in Tasks : ApSend(t)
    \/ \E t \in Tasks : ApWait(t)
    \/ \E t \in Tasks : SwSend(t)
    \/ \E t \in Tasks : SwWait(t)
    \/ \E t \in Tasks : Finish(t)

SpecEngine == InitWait /\ [][NextEngine]_vars

NextPair ==
    \/ ChainAdvance
    \/ \E i \in DOMAIN txs, status \in {0, 1} : Mine(i, status)
    \/ \E t \in Tasks, token_in \in Addresses, token_out \in Addresses :
           CallSwap(t, token_in, token_out)
    \/ \E t \in Tasks : WLatest(t)
    \/ \E t \in Tasks : WPending(t)
    \/ \E t \in Tasks : WReceipt(t)
    \/ \E t \in Tasks : GnAcquire(t)
    \/ \E t \in Tasks : GnRead(t)
    \/ \E t \in Tasks : GnClaim(t)
    \/ \E t \in Tasks : GnVerify(t)
    \/ \E t \in Tasks : GnSleep(t)
    \/ \E t \in Tasks : SwSend(t)
    \/ \E t \in Tasks : SwWait(t)
    \/ \E t \in Tasks : Finish(t)

SpecPair == Init /\ [][NextPair]_vars

NextNonce ==
    \/ ChainAdvance
    \/ \E t \in Tasks : CallGetNonce(t)
    \/ \E t \in Tasks : GnAcquire(t)
    \/ \E t \in Tasks : GnRead(t)
    \/ \E t \in Tasks : GnClaim(t)
    \/ \E t \in Tasks : GnVerify(t)
    \/ \E t \in Tasks : GnSleep(t)
    \/ \E t \in Tasks : Finish(t)

SpecNonce == Init /\ [][NextNonce]_vars

\* ==== properties ===============================================================

Approving(t) == op[t] = "approve_token"

\* The text of a hash read back into bytes.
HexValue(digit) == (CHOOSE i \in 1..16 : HexDigits[i] = digit) - 1

RECURSIVE Unhex(_)
Unhex(text) ==
    IF Len(text) < 2 THEN <<>>
    ELSE <<16 * HexValue(text[1]) + HexValue(text[2])>> \o Unhex(SubSeq(text, 3, Len(text)))

\* C1 -- Nonce uniqueness: whatever the interleaving of the get_nonce calls,
\* their retries and the moves of the chain's pending count, no two calls
\* are returned the same nonce.
C1_NonceUnique ==
    \A i, j \in 1..Len(returned) : i # j => returned[i] # returned[j]

\* Two concurrent calls have returned and one of them had to retry.
C1_Witness ==
    /\ batch.size >= 2
    /\ ~batch.calm
    /\ Len(returned) - batch.from >= 2
    /\ _next_nonce > batch.base + 2

\* C9 -- Nonce contiguity: once the N calls of a batch have all returned, with
\* every read of the pending count answering the same p since the batch began,
\* the nonces returned to them are exactly max(c, p), ..., max(c, p) + N - 1.
C9_NonceContiguous ==
    (Quiescent /\ batch.calm /\ batch.size > 0) =>
        /\ Len(returned) - batch.from = batch.size
        /\ {returned[i] : i \in (batch.from + 1)..Len(returned)}
               = batch.base..(batch.base + batch.size - 1)

\* A calm batch of two or more calls has returned.
C9_Witness ==
    /\ Quiescent
    /\ batch.calm
    /\ batch.size >= 2
    /\ Len(returned) - batch.from = batch.size

\* C3 -- A consumed nonce is never released or reused: no step lowers
\* _next_nonce, every nonce of an approve_token call that failed after
\* get_nonce had returned stays below the counter, and no get_nonce call
\* returns such a nonce.
C3_NonceNeverReleased ==
    [][ /\ _next_nonce' >= _next_nonce
        /\ \A n \in burned' : n < _next_nonce'
        /\ Len(returned') > Len(returned) => returned'[Len(returned')] \notin burned
      ]_vars

\* An approve_token call failed after it was given a nonce, and get_nonce
\* has returned again since.
C3_Witness ==
    \E i \in 1..Len(returned) :
        /\ returned[i] \in burned
        /\ i < Len(returned)
        /\ \E t \in Tasks : Ended(t) /\ Approving(t) /\ frame[t].step \in {"build", "sign", "send", "wait"}
                            /\ frame[t].nonce = returned[i]

\* C4 -- Approval fast path: the step of approve_token that reads an
\* allowance not below the requested amount returns {'success': True} and
\* changes nothing else: no nonce is allocated, nothing is broadcast.
C4_FastPath ==
    [][ \A t \in Tasks :
          ( /\ pc[t] = "ap_allowance"
            /\ pc'[t] # "ap_allowance"
            /\ frame'[t].step = "none"
            /\ frame'[t].allowance >= frame'[t].amount )
          => /\ pc'[t] = "done"
             /\ result'[t] = [success |-> TRUE]
             /\ frame'[t].got = 0 /\ frame'[t].sent = 0
             /\ UNCHANGED <<_next_nonce, nonce_lock, returned, chainVars>>
      ]_vars

\* A call has returned by the fast path on an allowance equal to the amount.
C4_Witness ==
    \E t \in Tasks :
        /\ Approving(t) /\ pc[t] = "done"
        /\ frame[t].step = "none"
        /\ frame[t].allowance = frame[t].amount
        /\ result[t] = [success |-> TRUE]

\* C6 -- Receipt classification: a receipt with status 1 gives success with
\* the hash, gas used and block number of that receipt, any other receipt
\* gives failure "Transaction failed" with the receipt attached, and success
\* comes only from the fast path or from a status-1 receipt of the
\* transaction the call broadcast.
C6_ReceiptClassified ==
    \A t \in Tasks :
        (Approving(t) /\ pc[t] = "done") =>
            LET r == frame[t].receipt IN
            /\ (r # NoReceipt /\ r.status = 1) =>
                   /\ DOMAIN result[t] = {"success", "transactionHash", "gas_used", "blockNumber"}
                   /\ result[t].success
                   /\ Unhex(result[t].transactionHash) = r.transactionHash
                   /\ result[t].gas_used = r.gasUsed
                   /\ result[t].blockNumber = r.blockNumber
            /\ (r # NoReceipt /\ r.status # 1) =>
                   result[t] = [success |-> FALSE, error |-> "Transaction failed", receipt |-> r]
            /\ result[t].success =>
                   \/ frame[t].sent = 0 /\ r = NoReceipt
                   \/ /\ r.status = 1
                      /\ r = ReceiptOf(frame[t].tx_hash)
                      /\ r.transactionHash = frame[t].tx_hash

\* One call has ended on a status-1 receipt and another on a status-0 receipt.
C6_Witness ==
    \E t, u \in Tasks :
        /\ Approving(t) /\ pc[t] = "done" /\ frame[t].receipt.status = 1
        /\ Approving(u) /\ pc[u] = "done" /\ frame[u].receipt.status = 0

\* C7 -- Typed failure: no exception leaves approve_token; a call that met
\* a failure at any step has returned success false with an error descriptor.
C7_TypedFailure ==
    \A t \in Tasks :
        Approving(t) =>
            /\ pc[t] # "raised"
            /\ (pc[t] = "done" /\ frame[t].step # "none") =>
                   /\ result[t].success = FALSE
                   /\ "error" \in DOMAIN result[t]
                   /\ result[t].error = get_readable_error(frame[t].exc)

\* Two calls have ended in failure, one at the allowance read, one later.
C7_Witness ==
    \E t, u \in Tasks :
        /\ Approving(t) /\ pc[t] = "done" /\ frame[t].step = "allowance"
        /\ Approving(u) /\ pc[u] = "done" /\ frame[u].step \in {"nonce", "build", "sign", "send", "wait"}

\* What a program can check of a result: every field but the error text.
Checkable(r) == [k \in DOMAIN r \ {"error"} |-> r[k]]

TimedOut(t) ==
    /\ Approving(t) /\ pc[t] = "done"
    /\ frame[t].step = "wait" /\ frame[t].exc = "TimeExhausted"

\* C8 -- A receipt-wait timeout is reported with a kind of its own: what a
\* program can check of the result of a call whose transaction was broadcast
\* and got no receipt in time differs from that of a call that failed before
\* the broadcast and from that of a call whose transaction reverted.
C8_UnconfirmedKind ==
    \A t, u \in Tasks :
        ( /\ TimedOut(t)
          /\ Approving(u) /\ pc[u] = "done"
          /\ \/ frame[u].step \in {"build", "sign", "send"}
             \/ (frame[u].receipt # NoReceipt /\ frame[u].receipt.status # 1) )
        => Checkable(result[t]) # Checkable(result[u])

\* C10 -- Allowance idempotence: a call that follows a successful approval
\* of the same task, asks for no more, and reads the allowance nothing has
\* touched since that approval was mined, broadcasts nothing and takes no
\* nonce: the two calls together broadcast one transaction and consume one
\* nonce.
C10_AllowanceIdempotent ==
    \A t \in Tasks :
        ( /\ Approving(t) /\ Ended(t)
          /\ frame[t].calm
          /\ frame[t].amount <= prev[t].amount )
        => /\ prev[t].sent + frame[t].sent = 1
           /\ prev[t].got + frame[t].got = 1

\* The second call of such a pair has returned.
C10_Witness ==
    \E t \in Tasks :
        /\ Approving(t) /\ pc[t] = "done"
        /\ frame[t].calm
        /\ prev[t].ok /\ prev[t].sent = 1
        /\ frame[t].amount <= prev[t].amount
        /\ result[t] = [success |-> TRUE]

\* The part of an operation on a pair that the pair's entry is to protect:
\* from the return of _wait_for_pending_txs until its transaction has a
\* receipt.
Swapping(t) == op[t] = "swap_tokens"

InProtected(t) ==
    /\ Swapping(t)
    /\ \/ pc[t] \in {"gn_acquire", "gn_read", "gn_claim", "gn_verify", "gn_sleep", "sw_send"}
       \/ pc[t] = "sw_wait" /\ ReceiptOf(frame[t].tx_hash) = NoReceipt

\* C2 -- Pair serialization: no two operations on the same unordered pair
\* are in their protected sections at the same time.
C2_PairSerialized ==
    \A t, u \in Tasks :
        (t # u /\ InProtected(t) /\ InProtected(u)) =>
            frame[t].token_pair # frame[u].token_pair

\* C5 -- The pending entry is removed on every exit path: when an operation
\* that found or registered an entry of a pair has ended, in whatever way,
\* that entry is no longer in _pending_txs.
C5_EntryRemoved ==
    \A t \in Tasks :
        (Swapping(t) /\ Ended(t)) =>
            /\ frame[t].seen # <<>> => <<frame[t].token_pair, frame[t].seen>> \notin _pending_txs
            /\ frame[t].sent > 0 => <<frame[t].token_pair, frame[t].tx_hash>> \notin _pending_txs

\* ---- get_nonce: retries and reconciliation ------------------------------------
\* The retry budget the bounded policy is to enforce.
MaxAttempts == 3

\* C14 -- Bounded nonce retry: no get_nonce call makes more than MaxAttempts
\* attempts, whatever the chain nonce source answers; a call that has used
\* them up has returned a nonce or failed.
C14_BoundedRetry ==
    \A t \in Tasks : frame[t].tries <= MaxAttempts

\* C18 -- Reconciliation with the chain: the step that claims stores n + 1
\* for n = max(counter, pending count), both as read in the same critical
\* section with the counter untouched in between, and the step that returns
\* gives that n, which is not below the pending count the verification read.
C18_Reconciled ==
    [][ \A t \in Tasks :
          /\ (pc[t] = "gn_claim" /\ pc'[t] = "gn_verify") =>
                 /\ frame[t].tracked = _next_nonce
                 /\ frame[t].next_nonce = Max(frame[t].tracked, frame[t].current_nonce)
                 /\ _next_nonce' = frame[t].next_nonce + 1
          /\ (pc[t] = "gn_verify" /\ pc'[t] \notin {"gn_verify", "gn_sleep"}) =>
                 /\ Len(returned') = Len(returned) + 1
                 /\ returned'[Len(returned')] = Max(frame[t].tracked, frame[t].current_nonce)
                 /\ returned'[Len(returned')] >= chainPending
                 /\ returned'[Len(returned')] >= frame[t].current_nonce
      ]_vars

\* One call has returned the pending count it read and another the counter,
\* which was above the pending count it read.
C18_Witness ==
    \E t, u \in Tasks :
        /\ op[t] = "get_nonce" /\ pc[t] = "done"
        /\ result[t] = [value |-> frame[t].current_nonce]
        /\ frame[t].current_nonce > 0
        /\ op[u] = "get_nonce" /\ pc[u] = "done"
        /\ result[u].value > frame[u].current_nonce

\* C20 -- get_nonce creates no nonce gap: the step that gives up a claimed
\* nonce and goes to retry is taken only when that nonce is below the
\* chain's pending count.
C20_NoNonceGap ==
    [][ \A t \in Tasks :
          (pc[t] = "gn_verify" /\ pc'[t] = "gn_sleep") =>
              frame[t].next_nonce < chainPending
      ]_vars

\* ---- the identity of a pair ------------------------------------------------------
\* Two address texts that differ in the case of their letters at most.
SameAddress(a, b) ==
    /\ Len(a) = Len(b)
    /\ \A i \in 1..Len(a) :
          \/ a[i] = b[i]
          \/ a[i] \in 65..90 /\ b[i] = a[i] + 32
          \/ a[i] \in 97..122 /\ b[i] = a[i] - 32

\* The unordered pair {a, b} is the unordered pair {c, d}.
SamePair(a, b, c, d) ==
    \/ SameAddress(a, c) /\ SameAddress(b, d)
    \/ SameAddress(a, d) /\ SameAddress(b, c)

Waiting(t) == op[t] = "_wait_for_pending_txs"

\* The lookup of line 50 has been made by task t in this step.
LooksUp(t) ==
    /\ Waiting(t)
    /\ pc[t] = "w_pending" /\ pc'[t] # "w_pending"
    /\ frame'[t].step = "none"

\* C11 -- Pair identity ignores order and letter case: the keys of (A, B) and
\* (B, A) are equal, and a lookup made for arguments that name the pair
\* {A, B} in either order and any letter case finds the entry recorded
\* under the key of (A, B).
C11_PairIdentity ==
    [][ \A t \in Tasks : \A a, b \in Addresses :
          (LooksUp(t) /\ SamePair(a, b, frame[t].token_in, frame[t].token_out)) =>
              /\ TokenPair(a, b) = TokenPair(b, a)
              /\ HasEntry(TokenPair(a, b)) =>
                     /\ pc'[t] = "w_receipt"
                     /\ frame'[t].seen = EntryOf(TokenPair(a, b))
      ]_vars

\* A call whose arguments are in the opposite order of the key, one of them
\* with a capital letter, waits for the transaction recorded for the pair.
C11_Witness ==
    \E t \in Tasks :
        /\ Waiting(t) /\ pc[t] = "w_receipt"
        /\ \E i \in DOMAIN txs : txs[i].hash = frame[t].seen
        /\ frame[t].token_pair = <<lower(frame[t].token_out), lower(frame[t].token_in)>>
        /\ frame[t].token_in # lower(frame[t].token_in)

\* C12 -- No false serialization: a lookup made while no entry belongs to
\* the pair of the call returns at once, with no receipt waited for and
\* _pending_txs as it was; a call that waits, waits for a transaction of its
\* own pair, and the step that ends its wait removes no entry of another pair.
C12_NoFalseSerialization ==
    [][ \A t \in Tasks :
          /\ ( /\ LooksUp(t)
               /\ \A e \in _pending_txs :
                      ~SamePair(e[1][1], e[1][2], frame[t].token_in, frame[t].token_out) )
             => /\ pc'[t] = "done"
                /\ result'[t] = [value |-> "None"]
                /\ frame'[t].seen = <<>>
                /\ _pending_txs' = _pending_txs
          /\ (Waiting(t) /\ pc'[t] = "w_receipt") =>
                 \A i \in DOMAIN txs' :
                     txs'[i].hash = frame'[t].seen =>
                         SamePair(txs'[i].pair[1], txs'[i].pair[2],
                                  frame'[t].token_in, frame'[t].token_out)
          /\ (Waiting(t) /\ pc[t] = "w_receipt" /\ pc'[t] # "w_receipt") =>
                 \A e \in _pending_txs \ _pending_txs' :
                     SamePair(e[1][1], e[1][2], frame[t].token_in, frame[t].token_out)
      ]_vars

\* A call has returned without waiting while the map held the entry of
\* another pair, and the entry is still there.
C12_Witness ==
    \E t \in Tasks :
        /\ Waiting(t) /\ pc[t] = "done"
        /\ frame[t].lone /\ frame[t].seen = <<>>
        /\ _pending_txs # {}
        /\ ~HasEntry(frame[t].token_pair)

\* ---- the fee policy ----------------------------------------------------------------
\* Arithmetic of amounts of wei.
WeiTwice(a) ==
    Wei(2 * a.gwei + (2 * a.wei) \div GweiInWei, (2 * a.wei) % GweiInWei)

WeiTenth(a) ==
    Wei(a.gwei \div 10, (a.gwei % 10) * (GweiInWei \div 10) + a.wei \div 10)

WeiMax(a, b) ==
    IF a.gwei > b.gwei \/ (a.gwei = b.gwei /\ a.wei >= b.wei) THEN a ELSE b

\* The floor of the priority fee in the reference deployment.
MinimumPriorityFee == Wei(0, 50)

\* What the policy gives for a base fee.
FeeQuote(baseFee) ==
    [maxFeePerGas |-> WeiTwice(baseFee),
     maxPriorityFeePerGas |-> WeiMax(MinimumPriorityFee, WeiTenth(baseFee))]

\* C13 -- Fee policy: every approval the node has taken carries the fees the
\* policy gives for the base fee of the block that was the latest when the
\* transaction was built (base fee 1000 gives 2000 and 100).
C13_FeePolicy ==
    /\ FeeQuote(Wei(0, 1000)) = [maxFeePerGas |-> Wei(0, 2000),
                                 maxPriorityFeePerGas |-> Wei(0, 100)]
    /\ \A i \in DOMAIN txs :
          txs[i].kind = "approve" =>
              txs[i].fees = FeeQuote(blocks[txs[i].built].baseFeePerGas)

\* ---- balances --------------------------------------------------------------------
Balancing(t) == op[t] = "get_token_balance"

Routing(t) == op[t] = "bestRate"

Answered(quotes) == {i \in DOMAIN quotes : quotes[i].ok}

\* C16 -- Best-rate selection: the quote returned is that of an adapter that
\* answered, with an amountOut no adapter that answered exceeds (A:100,
\* B:150, C:120 select B), and the request fails with NoLiquidity exactly
\* when no adapter answered.
C16_BestRate ==
    /\ bestRate(<<[ok |-> TRUE, amountOut |-> 100], [ok |-> TRUE, amountOut |-> 150],
                  [ok |-> TRUE, amountOut |-> 120]>>)
           = [quote |-> [venue |-> "B", amountOut |-> 150]]
    /\ \A t \in Tasks :
          (Routing(t) /\ Ended(t)) =>
              LET quotes == frame[t].quotes IN
              /\ Answered(quotes) = {} <=> result[t] = [raised |-> "NoLiquidity"]
              /\ Answered(quotes) # {} =>
                     /\ pc[t] = "done"
                     /\ \E i \in Answered(quotes) :
                            /\ result[t].quote.venue = Adapters[i]
                            /\ result[t].quote.amountOut = quotes[i].amountOut
                     /\ \A j \in Answered(quotes) :
                            quotes[j].amountOut <= result[t].quote.amountOut

\* One request was answered with the quote of the last adapter while the
\* first erred, another failed because every adapter erred.
C16_Witness ==
    \E t, u \in Tasks :
        /\ Routing(t) /\ pc[t] = "done"
        /\ ~frame[t].quotes[1].ok
        /\ result[t].quote.venue = "C"
        /\ frame[t].quotes[2].ok
        /\ Routing(u) /\ pc[u] = "raised"
        /\ result[u] = [raised |-> "NoLiquidity"]

\* ---- the nonce lock -----------------------------------------------------------------
\* The positions between "with self.nonce_lock:" and the end of its block.
InSection(t) == pc[t] \in {"gn_read", "gn_claim"}

\* The positions where a task is suspended or waits.
Suspended(t) ==
    pc[t] \in {"gn_sleep", "ap_allowance", "ap_sign", "ap_send", "ap_wait",
               "w_latest", "w_pending", "w_receipt", "sw_send", "sw_wait"}

Identifies(r, hash) ==
    \/ "transactionHash" \in DOMAIN r /\ Unhex(r.transactionHash) = hash
    \/ "receipt" \in DOMAIN r /\ r.receipt.transactionHash = hash

\* C19 -- The transaction hash survives a failed confirmation: the result of
\* an approve_token call that broadcast its transaction and ended in
\* failure identifies the hash of that transaction.
C19_HashSurvives ==
    \A t \in Tasks :
        (Approving(t) /\ pc[t] = "done" /\ frame[t].sent > 0 /\ ~result[t].success) =>
            Identifies(result[t], frame[t].tx_hash)

\* ---- several waiters on one pair ----------------------------------------------------
\* The wait of line 53 gave task t the receipt of the transaction it found
\* under its pair, and its call has ended.
Delivered(t) ==
    /\ Waiting(t) /\ Ended(t)
    /\ frame[t].seen # <<>>
    /\ frame[t].step # "receipt"
    /\ ReceiptOf(frame[t].seen) # NoReceipt

\* C21 -- Concurrent waiters on one pair all complete: when two calls of
\* _wait_for_pending_txs waited for the same transaction of their pair and
\* both were given its receipt, both have returned normally, neither has
\* raised, and the entry of the pair is gone.
C21_WaitersComplete ==
    \A t, u \in Tasks :
        (t # u /\ Delivered(t) /\ Delivered(u) /\ frame[t].seen = frame[u].seen) =>
            /\ pc[t] = "done" /\ pc[u] = "done"
            /\ <<frame[t].token_pair, frame[t].seen>> \notin _pending_txs

\* ---- several approvals at once ------------------------------------------------------
\* The approve_token call of task t is in progress and has read an allowance
\* below its amount (lines 101-106).
NeedsApproval(t) ==
    /\ Approving(t) /\ ~Ended(t)
    /\ pc[t] # "ap_allowance"
    /\ frame[t].allowance < frame[t].amount

\* C22 -- Concurrent approvals do not duplicate: two approve_token calls for
\* the same amount that are in progress together, both started from an
\* allowance below the amount, have between them been given at most one
\* nonce and have broadcast at most one approve transaction.
C22_ApprovalsNotDuplicated ==
    \A t, u \in Tasks :
        (t # u /\ NeedsApproval(t) /\ NeedsApproval(u) /\ frame[t].amount = frame[u].amount) =>
            /\ frame[t].got + frame[u].got <= 1
            /\ frame[t].sent + frame[u].sent <= 1

====
